---- MODULE Spec2Model ----
(***************************************************************************)
(* qpr.py: the typed port-graph builder QFn over a networkx MultiDiGraph.  *)
(* The state is one QFn instance (self.sig, self.G), the module-level      *)
(* registry fn_types, and the outcome of the call made last (the exception *)
(* it raised, if any), which its caller then consumes.                     *)
(***************************************************************************)
EXTENDS Integers, FiniteSets, Sequences, TLC

VARIABLES fn_types, sig, G, last, n_add_node, n_add_edge

vars == <<fn_types, sig, G, last, n_add_node, n_add_edge>>

(* ------------------------------ bounds --------------------------------- *)

\* add_node calls made in one behaviour
MaxAddNode == 2
\* edges inserted in one behaviour
MaxEdges == 2

(* ------------------------------ values --------------------------------- *)

\* qpr.py:5
edge_types == {"Bit", "u32", "Qubit"}

\* qpr.py:8-11, the dataclass Sig
Sig(in_types, out_types) == [in_types |-> in_types, out_types |-> out_types]

\* qpr.py:14-17, the registry as the module defines it
FnTypesTable ==
    ("H_gate" :> Sig("q" :> "Qubit", "q" :> "Qubit"))
 @@ ("CX_gate" :> Sig(("ctl" :> "Qubit") @@ ("tgt" :> "Qubit"),
                      ("ctl" :> "Qubit") @@ ("tgt" :> "Qubit")))

\* fn_types is a module-level dict: a caller may register further operations
\* in it before building. Not_gate (a classical negation, Bit in, Bit out)
\* stands for such an entry, so that operations of different port types exist.
Registries ==
    { FnTypesTable,
      FnTypesTable @@ ("Not_gate" :> Sig("c" :> "Bit", "c" :> "Bit")) }

\* the circuit signatures a caller passes to QFn(name, sig): all-Qubit as in
\* test() (qpr.py:79), and one that mixes port types
CircuitSigs ==
    { Sig("q" :> "Qubit", "q" :> "Qubit"),
      Sig(("q" :> "Qubit") @@ ("c" :> "Bit"), ("q" :> "Qubit") @@ ("c" :> "Bit")) }

\* the arguments the caller draws from: Not_gate is registered in one
\* registry and unknown in the other; "c" is a port of some signatures only
NodeNames == {"init", "fin", "H", "CX"}
FnIds     == {"H_gate", "Not_gate"}
Labels    == {"H"}
Ports     == {"q", "c"}

(* ---------------------------- exceptions -------------------------------- *)

NoExc         == [exc |-> "None", args |-> <<>>]
KeyError(k)   == [exc |-> "KeyError", args |-> <<k>>]
ValueError(m) == [exc |-> "ValueError", args |-> <<m>>]

\* the messages of qpr.py:33 and qpr.py:35 (written there with backquotes
\* around the method names)
UseInitEdgeMsg  == "Please use add_init_edge"
UseFinalEdgeMsg == "Please use add_final_edge"
TypeMismatchMsg(a, b) == "Type mismatch: " \o a \o " != " \o b

\* the outcome of a lookup: a value, or the exception it raised
Ok(v)    == [ok |-> TRUE, val |-> v]
Err(e)   == [ok |-> FALSE, exc |-> e]

\* d[k] on a Python dict
dict_get(d, k) == IF k \in DOMAIN d THEN Ok(d[k]) ELSE Err(KeyError(k))

(* ------------------------ networkx.MultiDiGraph ------------------------- *)

\* nx.MultiDiGraph()
nx_empty == [nodes |-> <<>>, edges |-> {}]

\* G.add_node(n, **attr): a new node gets attr, a present one is updated
nx_add_node(g, n, attr) ==
    [g EXCEPT !.nodes =
        IF n \in DOMAIN g.nodes
        THEN [m \in DOMAIN g.nodes |-> IF m = n THEN attr @@ g.nodes[m] ELSE g.nodes[m]]
        ELSE (n :> attr) @@ g.nodes]

\* the key MultiDiGraph.new_edge_key gives the next edge from u to v
nx_new_edge_key(g, u, v) == Cardinality({e \in g.edges : e.u = u /\ e.v = v})

\* G.add_edge on a DiGraph: an edge from u to v replaces the one there
nx_add_edge_digraph(g, u, v, attr) ==
    [nodes |-> g.nodes,
     edges |-> {e \in g.edges : ~(e.u = u /\ e.v = v)}
               \cup {[u |-> u, v |-> v, key |-> 0, attr |-> attr]}]

\* G.add_edge(u, v, **attr) on a MultiDiGraph: endpoints not yet present are
\* created with no attributes, and the edge is stored under a fresh key
nx_add_edge(g, u, v, attr) ==
    LET withU == IF u \in DOMAIN g.nodes THEN g.nodes ELSE (u :> <<>>) @@ g.nodes
        withV == IF v \in DOMAIN withU THEN withU ELSE (v :> <<>>) @@ withU
    IN  [nodes |-> withV,
         edges |-> g.edges \cup {[u |-> u, v |-> v, key |-> nx_new_edge_key(g, u, v),
                                  attr |-> attr]}]

\* the keyword arguments the three insertions give G.add_edge
edge_attr(src_port, tgt_port, datatype) ==
    [src_port |-> src_port, tgt_port |-> tgt_port, datatype |-> datatype]

(* -------------------------------- QFn ----------------------------------- *)

\* QFn.__init__: self.G after construction
QFn_init_G ==
    nx_add_node(nx_add_node(nx_empty, "init", "label" :> ""), "fin", "label" :> "")

\* the outcome of a method: the graph it leaves and the exception it raised
Return(g)   == [G |-> g, exc |-> NoExc]
Raise(g, e) == [G |-> g, exc |-> e]

\* the lookup with a default in place of the KeyError of a missing node
node_fnid_default(g, n) ==
    IF n \notin DOMAIN g.nodes THEN Ok("H_gate")
    ELSE dict_get(g.nodes[n], "fnid")

\* self.G.nodes[n]["fnid"]
node_fnid(g, n) ==
    IF n \notin DOMAIN g.nodes THEN Err(KeyError(n))
    ELSE dict_get(g.nodes[n], "fnid")

\* fn_types[fnid].out_types[port]
fn_out_type(fnid, port) ==
    IF fnid \notin DOMAIN fn_types THEN Err(KeyError(fnid))
    ELSE dict_get(fn_types[fnid].out_types, port)

\* the lookup with a default in place of the KeyError of a missing port
fn_in_type_default(fnid, port) ==
    IF fnid \notin DOMAIN fn_types THEN Err(KeyError(fnid))
    ELSE IF port \in DOMAIN fn_types[fnid].in_types
         THEN Ok(fn_types[fnid].in_types[port]) ELSE Ok("Qubit")

\* fn_types[fnid].in_types[port]
fn_in_type(fnid, port) ==
    IF fnid \notin DOMAIN fn_types THEN Err(KeyError(fnid))
    ELSE dict_get(fn_types[fnid].in_types, port)

\* the insertion without the comparison
check_and_insert_unchecked(g, u, v, src_port, tgt_port, src_datatype, tgt_datatype) ==
    Return(nx_add_edge(g, u, v, edge_attr(src_port, tgt_port, src_datatype)))

\* the insertion made before the comparison
check_and_insert_early(g, u, v, src_port, tgt_port, src_datatype, tgt_datatype) ==
    LET h == nx_add_edge(g, u, v, edge_attr(src_port, tgt_port, src_datatype))
    IN  IF src_datatype # tgt_datatype
        THEN Raise(h, ValueError(TypeMismatchMsg(src_datatype, tgt_datatype)))
        ELSE Return(h)

\* the comparison inverted
check_and_insert_inverted(g, u, v, src_port, tgt_port, src_datatype, tgt_datatype) ==
    IF src_datatype = tgt_datatype
    THEN Raise(g, ValueError(TypeMismatchMsg(src_datatype, tgt_datatype)))
    ELSE Return(nx_add_edge(g, u, v, edge_attr(src_port, tgt_port, src_datatype)))

\* the insertion refused when the target port already has an edge
check_and_insert_port_busy(g, u, v, src_port, tgt_port, src_datatype, tgt_datatype) ==
    IF src_datatype # tgt_datatype
    THEN Raise(g, ValueError(TypeMismatchMsg(src_datatype, tgt_datatype)))
    ELSE IF \E e \in g.edges : e.v = v /\ e.attr.tgt_port = tgt_port
    THEN Raise(g, ValueError("Port in use"))
    ELSE Return(nx_add_edge(g, u, v, edge_attr(src_port, tgt_port, src_datatype)))

\* the comparison and insertion that end each of the three edge methods
check_and_insert(g, u, v, src_port, tgt_port, src_datatype, tgt_datatype) ==
    IF src_datatype # tgt_datatype
    THEN Raise(g, ValueError(TypeMismatchMsg(src_datatype, tgt_datatype)))
    ELSE Return(nx_add_edge(g, u, v, edge_attr(src_port, tgt_port, src_datatype)))

\* QFn.add_node
add_node(g, name, fnid, label) ==
    Return(nx_add_node(g, name, ("fnid" :> fnid) @@ ("label" :> label)))

\* add_edge with its boundary guard after the lookups
add_edge_guard_late(g, src, src_port, tgt, tgt_port) ==
    LET src_fnid == node_fnid(g, src) IN
    IF ~src_fnid.ok THEN Raise(g, src_fnid.exc)
    ELSE LET tgt_fnid == node_fnid(g, tgt) IN
    IF ~tgt_fnid.ok THEN Raise(g, tgt_fnid.exc)
    ELSE IF src = "init" THEN Raise(g, ValueError(UseInitEdgeMsg))
    ELSE IF tgt = "fin" THEN Raise(g, ValueError(UseFinalEdgeMsg))
    ELSE LET src_datatype == fn_out_type(src_fnid.val, src_port) IN
    IF ~src_datatype.ok THEN Raise(g, src_datatype.exc)
    ELSE LET tgt_datatype == fn_in_type(tgt_fnid.val, tgt_port) IN
    IF ~tgt_datatype.ok THEN Raise(g, tgt_datatype.exc)
    ELSE check_and_insert(g, src, tgt, src_port, tgt_port,
                          src_datatype.val, tgt_datatype.val)

\* QFn.add_edge
add_edge(g, src, src_port, tgt, tgt_port) ==
    IF src = "init" THEN Raise(g, ValueError(UseInitEdgeMsg))
    ELSE IF tgt = "fin" THEN Raise(g, ValueError(UseFinalEdgeMsg))
    ELSE LET src_fnid == node_fnid(g, src) IN
    IF ~src_fnid.ok THEN Raise(g, src_fnid.exc)
    ELSE LET tgt_fnid == node_fnid(g, tgt) IN
    IF ~tgt_fnid.ok THEN Raise(g, tgt_fnid.exc)
    ELSE LET src_datatype == fn_out_type(src_fnid.val, src_port) IN
    IF ~src_datatype.ok THEN Raise(g, src_datatype.exc)
    ELSE LET tgt_datatype == fn_in_type(tgt_fnid.val, tgt_port) IN
    IF ~tgt_datatype.ok THEN Raise(g, tgt_datatype.exc)
    ELSE check_and_insert(g, src, tgt, src_port, tgt_port,
                          src_datatype.val, tgt_datatype.val)

\* QFn.add_init_edge, s being self.sig
add_init_edge(g, s, src_port, tgt, tgt_port) ==
    LET src_datatype == dict_get(s.in_types, src_port) IN
    IF ~src_datatype.ok THEN Raise(g, src_datatype.exc)
    ELSE LET tgt_fnid == node_fnid(g, tgt) IN
    IF ~tgt_fnid.ok THEN Raise(g, tgt_fnid.exc)
    ELSE LET tgt_datatype == fn_in_type(tgt_fnid.val, tgt_port) IN
    IF ~tgt_datatype.ok THEN Raise(g, tgt_datatype.exc)
    ELSE check_and_insert(g, "init", tgt, src_port, tgt_port,
                          src_datatype.val, tgt_datatype.val)

\* QFn.add_final_edge, s being self.sig
add_final_edge(g, s, src, src_port, tgt_port) ==
    LET tgt_datatype == dict_get(s.out_types, tgt_port) IN
    IF ~tgt_datatype.ok THEN Raise(g, tgt_datatype.exc)
    ELSE LET src_fnid == node_fnid(g, src) IN
    IF ~src_fnid.ok THEN Raise(g, src_fnid.exc)
    ELSE LET src_datatype == fn_out_type(src_fnid.val, src_port) IN
    IF ~src_datatype.ok THEN Raise(g, src_datatype.exc)
    ELSE check_and_insert(g, src, "fin", src_port, tgt_port,
                          src_datatype.val, tgt_datatype.val)

\* save_image taking each node's label out of the graph as it reads it
save_image_pops(g) ==
    IF \E n \in DOMAIN g.nodes : "label" \notin DOMAIN g.nodes[n]
    THEN Raise(g, KeyError("label"))
    ELSE Return([g EXCEPT !.nodes =
                   [n \in DOMAIN g.nodes |->
                      [k \in DOMAIN g.nodes[n] \ {"label"} |-> g.nodes[n][k]]]])

\* save_image reads every node's label and every edge's endpoints, and hands
\* them to graphviz; self.G is only read
save_image(g) ==
    IF \E n \in DOMAIN g.nodes : "label" \notin DOMAIN g.nodes[n]
    THEN Raise(g, KeyError("label"))
    ELSE Return(g)

(* ------------------------------ the calls ------------------------------- *)

\* what `last` records of a call: the method, its arguments, the graph it was
\* made on and the exception it raised
Call(op, args, pre, r) == [op |-> op, args |-> args, pre |-> pre, exc |-> r.exc]

NoCall == [op |-> "none", args |-> <<>>, pre |-> nx_empty, exc |-> NoExc]

Idle == last.op = "none"

Init ==
    /\ fn_types \in Registries
    /\ sig \in CircuitSigs
    /\ G = QFn_init_G
    /\ last = NoCall
    /\ n_add_node = 0
    /\ n_add_edge = 0

\* an edge method returned: n_add_edge counts the calls that did not raise
EdgeCall(op, args, r) ==
    /\ G' = r.G
    /\ last' = Call(op, args, G, r)
    /\ n_add_edge' = IF r.exc = NoExc THEN n_add_edge + 1 ELSE n_add_edge
    /\ UNCHANGED <<fn_types, sig, n_add_node>>

AddNode ==
    /\ Idle
    /\ n_add_node < MaxAddNode
    /\ \E name \in NodeNames, fnid \in FnIds, label \in Labels :
         LET r == add_node(G, name, fnid, label) IN
           /\ G' = r.G
           /\ last' = Call("add_node", [name |-> name, fnid |-> fnid, label |-> label], G, r)
           /\ n_add_node' = n_add_node + 1
           /\ UNCHANGED <<fn_types, sig, n_add_edge>>

AddEdge ==
    /\ Idle
    /\ n_add_edge < MaxEdges
    /\ \E src \in NodeNames, src_port \in Ports, tgt \in NodeNames, tgt_port \in Ports :
         EdgeCall("add_edge",
                  [src |-> src, src_port |-> src_port, tgt |-> tgt, tgt_port |-> tgt_port],
                  add_edge(G, src, src_port, tgt, tgt_port))

AddInitEdge ==
    /\ Idle
    /\ n_add_edge < MaxEdges
    /\ \E src_port \in Ports, tgt \in NodeNames, tgt_port \in Ports :
         EdgeCall("add_init_edge",
                  [src_port |-> src_port, tgt |-> tgt, tgt_port |-> tgt_port],
                  add_init_edge(G, sig, src_port, tgt, tgt_port))

AddFinalEdge ==
    /\ Idle
    /\ n_add_edge < MaxEdges
    /\ \E src \in NodeNames, src_port \in Ports, tgt_port \in Ports :
         EdgeCall("add_final_edge",
                  [src |-> src, src_port |-> src_port, tgt_port |-> tgt_port],
                  add_final_edge(G, sig, src, src_port, tgt_port))

SaveImage ==
    /\ Idle
    /\ LET r == save_image(G) IN
         /\ G' = r.G
         /\ last' = Call("save_image", <<>>, G, r)
    /\ UNCHANGED <<fn_types, sig, n_add_node, n_add_edge>>

\* the caller takes the result (or catches the exception) and goes on
CallerResumes ==
    /\ ~Idle
    /\ last' = NoCall
    /\ UNCHANGED <<fn_types, sig, G, n_add_node, n_add_edge>>

Next ==
    \/ AddNode
    \/ AddEdge
    \/ AddInitEdge
    \/ AddFinalEdge
    \/ SaveImage
    \/ CallerResumes

Spec == Init /\ [][Next]_vars

(* ------------------------------- test() --------------------------------- *)

\* a method call c = [op, args] made on graph g of a QFn whose self.sig is s
call(g, s, c) ==
    CASE c.op = "add_node" ->
           add_node(g, c.args.name, c.args.fnid, c.args.label)
      [] c.op = "add_edge" ->
           add_edge(g, c.args.src, c.args.src_port, c.args.tgt, c.args.tgt_port)
      [] c.op = "add_init_edge" ->
           add_init_edge(g, s, c.args.src_port, c.args.tgt, c.args.tgt_port)
      [] c.op = "add_final_edge" ->
           add_final_edge(g, s, c.args.src, c.args.src_port, c.args.tgt_port)
      [] c.op = "save_image" ->
           save_image(g)

\* qpr.py:80-87, the calls test() makes in order
TestCalls ==
    << [op |-> "add_node", args |-> [name |-> "H", fnid |-> "H_gate", label |-> "H"]],
       [op |-> "add_node", args |-> [name |-> "CX", fnid |-> "CX_gate", label |-> "CX"]],
       [op |-> "add_init_edge", args |-> [src_port |-> "q0", tgt |-> "H", tgt_port |-> "q"]],
       [op |-> "add_edge",
        args |-> [src |-> "H", src_port |-> "q", tgt |-> "CX", tgt_port |-> "ctl"]],
       [op |-> "add_init_edge", args |-> [src_port |-> "q1", tgt |-> "CX", tgt_port |-> "tgt"]],
       [op |-> "add_final_edge", args |-> [src |-> "CX", src_port |-> "ctl", tgt_port |-> "q0"]],
       [op |-> "add_final_edge", args |-> [src |-> "CX", src_port |-> "tgt", tgt_port |-> "q1"]],
       [op |-> "save_image", args |-> <<>>] >>

\* qpr.py:79, the circuit signature test() builds its QFn with
BellSig ==
    Sig(("q0" :> "Qubit") @@ ("q1" :> "Qubit"), ("q0" :> "Qubit") @@ ("q1" :> "Qubit"))

\* the circuit signatures over the ports q0 and q1: test() run with each
TestSigs ==
    { Sig(i, o) : i \in [{"q0", "q1"} -> edge_types], o \in [{"q0", "q1"} -> edge_types] }

InitTest ==
    /\ fn_types \in Registries
    /\ sig \in TestSigs
    /\ G = QFn_init_G
    /\ last = NoCall
    /\ n_add_node = 0
    /\ n_add_edge = 0

\* the statement of test() that runs next: every call made so far returned
TestPc == n_add_node + n_add_edge + 1

\* test() makes its next call; an exception ends it, and so does save_image
TestStep ==
    /\ last.exc = NoExc
    /\ last.op # "save_image"
    /\ LET c == TestCalls[TestPc]
           r == call(G, sig, c)
       IN  /\ G' = r.G
           /\ last' = Call(c.op, c.args, G, r)
           /\ n_add_node' = IF c.op = "add_node" THEN n_add_node + 1 ELSE n_add_node
           /\ n_add_edge' = IF c.op \in {"add_edge", "add_init_edge", "add_final_edge"}
                               /\ r.exc = NoExc
                            THEN n_add_edge + 1 ELSE n_add_edge
    /\ UNCHANGED <<fn_types, sig>>

NextTest == TestStep

SpecTest == InitTest /\ [][NextTest]_vars

(* ------------------- two edge insertions in a row ----------------------- *)

\* the insertion calls the caller can make
NodeInsertions ==
    { [op |-> "add_node", args |-> [name |-> n, fnid |-> f, label |-> l]] :
        n \in NodeNames, f \in FnIds, l \in Labels }
EdgeInsertions ==
    { [op |-> "add_edge",
       args |-> [src |-> a, src_port |-> p, tgt |-> b, tgt_port |-> q]] :
        a \in NodeNames, p \in Ports, b \in NodeNames, q \in Ports }
    \cup { [op |-> "add_init_edge", args |-> [src_port |-> p, tgt |-> b, tgt_port |-> q]] :
             p \in Ports, b \in NodeNames, q \in Ports }
    \cup { [op |-> "add_final_edge", args |-> [src |-> a, src_port |-> p, tgt_port |-> q]] :
             a \in NodeNames, p \in Ports, q \in Ports }

\* add_node calls made before the two edge insertions
MaxOrderNodes == 1

\* the circuit signatures passed to QFn(name, sig) here: the one of
\* CircuitSigs that mixes port types, and one with two Qubit ports on each
\* side, so that two different edges can join init (or fin) and a node
OrderSigs ==
    { Sig(("q" :> "Qubit") @@ ("c" :> "Bit"), ("q" :> "Qubit") @@ ("c" :> "Bit")),
      Sig(("q" :> "Qubit") @@ ("c" :> "Qubit"), ("q" :> "Qubit") @@ ("c" :> "Qubit")) }

InitOrder ==
    /\ fn_types \in Registries
    /\ sig \in OrderSigs
    /\ G = QFn_init_G
    /\ last = NoCall
    /\ n_add_node = 0
    /\ n_add_edge = 0

\* the caller adds a node
OrderAddNode ==
    /\ Idle
    /\ n_add_node < MaxOrderNodes
    /\ \E c \in NodeInsertions :
         LET r == call(G, sig, c) IN
           /\ G' = r.G
           /\ last' = Call(c.op, c.args, G, r)
    /\ n_add_node' = n_add_node + 1
    /\ UNCHANGED <<fn_types, sig, n_add_edge>>

\* the caller makes the first of two edge insertions
OrderFirstEdge ==
    /\ Idle
    /\ \E c \in EdgeInsertions : EdgeCall(c.op, c.args, call(G, sig, c))

\* add_node has returned to the caller
OrderResumes ==
    /\ last.op = "add_node"
    /\ CallerResumes

\* the caller makes the second one, no add_node in between; `last` keeps the
\* record of the first under `first`
OrderSecondEdge ==
    /\ last.op \in {"add_edge", "add_init_edge", "add_final_edge"}
    /\ "first" \notin DOMAIN last
    /\ \E c \in EdgeInsertions :
         LET r == call(G, sig, c) IN
           /\ G' = r.G
           /\ last' = [op |-> c.op, args |-> c.args, pre |-> G, exc |-> r.exc,
                       first |-> last]
           /\ n_add_edge' = IF r.exc = NoExc THEN n_add_edge + 1 ELSE n_add_edge
    /\ UNCHANGED <<fn_types, sig, n_add_node>>

NextOrder ==
    \/ OrderAddNode
    \/ OrderFirstEdge
    \/ OrderResumes
    \/ OrderSecondEdge

SpecOrder == InitOrder /\ [][NextOrder]_vars

(* ------------------------ reading the last call ------------------------- *)

EdgeOps == {"add_edge", "add_init_edge", "add_final_edge"}

\* the error kinds of the specification, as the exceptions qpr.py raises
IsTypeMismatch(e) ==
    \E a \in edge_types, b \in edge_types : e = ValueError(TypeMismatchMsg(a, b))
IsMisusedBoundaryNode(e) ==
    e \in {ValueError(UseInitEdgeMsg), ValueError(UseFinalEdgeMsg)}

\* the operation nodes the last call names as source and as target
SrcNodes == IF last.op \in {"add_edge", "add_final_edge"} THEN {last.args.src} ELSE {}
TgtNodes == IF last.op \in {"add_edge", "add_init_edge"} THEN {last.args.tgt} ELSE {}

\* the last call names init or fin where it names an operation node
NamesBoundary == (SrcNodes \cup TgtNodes) \cap {"init", "fin"} # {}

\* init and fin are as the constructor made them
BoundaryIntact ==
    G.nodes["init"] = ("label" :> "") /\ G.nodes["fin"] = ("label" :> "")

\* add_edge's guard on the boundary names lets the last call through
GuardPasses ==
    last.op = "add_edge" => last.args.src # "init" /\ last.args.tgt # "fin"

\* the signature of a node of graph g: its fnid looked up in the registry
NodeHasSig(g, n) ==
    /\ n \in DOMAIN g.nodes
    /\ "fnid" \in DOMAIN g.nodes[n]
    /\ g.nodes[n]["fnid"] \in DOMAIN fn_types
NodeSig(g, n) == fn_types[g.nodes[n]["fnid"]]

\* every node the last call names had a signature when the call was made
NodesResolve == \A n \in SrcNodes \cup TgtNodes : NodeHasSig(last.pre, n)

\* the port maps the last call resolves its two ports in
SrcMap == IF last.op = "add_init_edge" THEN sig.in_types
          ELSE NodeSig(last.pre, last.args.src).out_types
TgtMap == IF last.op = "add_final_edge" THEN sig.out_types
          ELSE NodeSig(last.pre, last.args.tgt).in_types

\* the endpoints of the edge the last call asks for
EdgeU == IF last.op = "add_init_edge" THEN "init" ELSE last.args.src
EdgeV == IF last.op = "add_final_edge" THEN "fin" ELSE last.args.tgt

\* the edges of g that were not in h
NewEdges(g, h) == g.edges \ h.edges

(* -------------------------------- C1 ------------------------------------ *)

\* the declared output-port type at the source of an edge, and the declared
\* input-port type at its target, in the current graph
DeclaredOut(n, port) ==
    IF n = "init" THEN dict_get(sig.in_types, port)
    ELSE IF NodeHasSig(G, n) THEN dict_get(NodeSig(G, n).out_types, port)
    ELSE Err(KeyError(n))
DeclaredIn(n, port) ==
    IF n = "fin" THEN dict_get(sig.out_types, port)
    ELSE IF NodeHasSig(G, n) THEN dict_get(NodeSig(G, n).in_types, port)
    ELSE Err(KeyError(n))

\* C1: in every reachable state every edge records a datatype equal to the
\* declared output-port type at its source (the circuit's in-port type when
\* the source is init) and to the declared input-port type at its target (the
\* circuit's out-port type when the target is fin), under the nodes' current
\* operation signatures.
C1_TypeSafety ==
    \A e \in G.edges :
        LET s == DeclaredOut(e.u, e.attr.src_port)
            t == DeclaredIn(e.v, e.attr.tgt_port)
        IN  /\ s.ok /\ s.val = e.attr.datatype
            /\ t.ok /\ t.val = e.attr.datatype

(* -------------------------------- C2 ------------------------------------ *)

\* the last call was an edge insertion that resolved both of its types
Resolved ==
    /\ last.op \in EdgeOps
    /\ GuardPasses
    /\ NodesResolve
    /\ last.args.src_port \in DOMAIN SrcMap
    /\ last.args.tgt_port \in DOMAIN TgtMap

\* C2: an edge insertion (add_edge past its boundary guard, add_init_edge,
\* add_final_edge) whose nodes exist and whose two ports are in the relevant
\* signature maps raises the type mismatch exactly when the two resolved types
\* differ, leaving the graph as it was, and returns exactly when they are
\* equal, having added exactly one edge, between the named endpoints and
\* ports, that carries that type.
C2_MismatchIffTypesDiffer ==
    Resolved =>
        LET s == SrcMap[last.args.src_port]
            t == TgtMap[last.args.tgt_port]
        IN  /\ (s # t) <=> IsTypeMismatch(last.exc)
            /\ (s = t) <=> last.exc = NoExc
            /\ s # t => /\ last.exc = ValueError(TypeMismatchMsg(s, t))
                        /\ G = last.pre
            /\ s = t => /\ G.nodes = last.pre.nodes
                        /\ last.pre.edges \subseteq G.edges
                        /\ Cardinality(NewEdges(G, last.pre)) = 1
                        /\ \A e \in NewEdges(G, last.pre) :
                              /\ e.u = EdgeU /\ e.v = EdgeV
                              /\ e.attr = edge_attr(last.args.src_port,
                                                    last.args.tgt_port, s)

\* add_edge refused to connect a Qubit output to a Bit input
C2_Witness ==
    /\ Resolved
    /\ BoundaryIntact
    /\ last.op = "add_edge"
    /\ last.exc = ValueError(TypeMismatchMsg("Qubit", "Bit"))

(* -------------------------------- C3 ------------------------------------ *)

\* C3: after an insertion call that raised, the graph (its nodes with their
\* attributes and its edges, hence the node count and the edge count) is the
\* graph the call was made on; the builder has no other state, so later
\* insertions are decided as before.
C3_NoPartialMutation ==
    (last.op \in EdgeOps \cup {"add_node"} /\ last.exc # NoExc) =>
        /\ G = last.pre
        /\ Cardinality(DOMAIN G.nodes) = Cardinality(DOMAIN last.pre.nodes)
        /\ Cardinality(G.edges) = Cardinality(last.pre.edges)

\* a type mismatch was raised on a graph that already held an edge
C3_Witness ==
    /\ last.op \in EdgeOps
    /\ BoundaryIntact
    /\ IsTypeMismatch(last.exc)
    /\ last.pre.edges # {}

(* -------------------------------- C4 ------------------------------------ *)

\* C4: add_node with a name already in the graph (init and fin included)
\* raises, and the node's attributes stay as they were.
C4_DuplicateRejected ==
    (last.op = "add_node" /\ last.args.name \in DOMAIN last.pre.nodes) =>
        /\ last.exc # NoExc
        /\ G.nodes[last.args.name] = last.pre.nodes[last.args.name]

(* -------------------------------- C5 ------------------------------------ *)

\* the nodes that carry an operation identifier
OperationNodes == {n \in DOMAIN G.nodes : "fnid" \in DOMAIN G.nodes[n]}

\* C5: add_node with an operation identifier that is no key of the registry
\* raises and inserts no node; so every operation node of the graph carries an
\* identifier of the registry.
C5_UnknownOperationRejected ==
    /\ (last.op = "add_node" /\ last.args.fnid \notin DOMAIN fn_types) =>
           (last.exc # NoExc /\ G = last.pre)
    /\ \A n \in OperationNodes : G.nodes[n]["fnid"] \in DOMAIN fn_types

(* -------------------------------- C6 ------------------------------------ *)

\* C6: add_edge with init as its source or fin as its target raises the
\* boundary-misuse error, whatever the other node and the ports are, and
\* leaves the graph as it was.
C6_BoundaryGuard ==
    (last.op = "add_edge" /\ ~GuardPasses) =>
        /\ IsMisusedBoundaryNode(last.exc)
        /\ G = last.pre

\* add_edge from init to a node that was never added, through a port the
\* circuit does not declare: the guard answered first
C6_Witness ==
    /\ last.op = "add_edge"
    /\ last.args.src = "init"
    /\ last.args.tgt \notin DOMAIN last.pre.nodes
    /\ last.args.src_port \notin DOMAIN sig.in_types
    /\ last.exc = ValueError(UseInitEdgeMsg)

(* -------------------------------- C7 ------------------------------------ *)

\* C7: add_edge with init as its target or fin as its source raises the
\* boundary-misuse error, whatever the other node and the ports are.
C7_BoundaryIsolation ==
    (last.op = "add_edge" /\ (last.args.tgt = "init" \/ last.args.src = "fin")) =>
        IsMisusedBoundaryNode(last.exc)

(* -------------------------------- C8 ------------------------------------ *)

\* C8: the edge count is the number of edge insertions that returned; no call
\* (one that raised, add_node, save_image) removes a node or an edge, and
\* every edge present before a call is present after it with the same source,
\* source port, target, target port and datatype.
C8_AppendOnly ==
    /\ Cardinality(G.edges) = n_add_edge
    /\ last.op # "none" =>
        /\ last.pre.edges \subseteq G.edges
        /\ DOMAIN last.pre.nodes \subseteq DOMAIN G.nodes
        /\ Cardinality(G.edges) >= Cardinality(last.pre.edges)
        /\ Cardinality(DOMAIN G.nodes) >= Cardinality(DOMAIN last.pre.nodes)

\* a second edge was inserted between a pair of nodes already connected
C8_Witness ==
    /\ last.op \in EdgeOps
    /\ BoundaryIntact
    /\ last.exc = NoExc
    /\ \E e \in last.pre.edges : e.u = EdgeU /\ e.v = EdgeV
    /\ n_add_edge = 2

(* -------------------------------- C9 ------------------------------------ *)

\* the nodes the last call names that were not in the graph
UnknownNodes == {n \in SrcNodes \cup TgtNodes : n \notin DOMAIN last.pre.nodes}

\* both endpoints of every edge are nodes of the graph
EndpointsAreNodes ==
    \A e \in G.edges : e.u \in DOMAIN G.nodes /\ e.v \in DOMAIN G.nodes

\* the endpoints of an edge just inserted were nodes before the insertion
EndpointsAddedBefore ==
    (last.op \in EdgeOps /\ last.exc = NoExc) =>
        \A e \in NewEdges(G, last.pre) :
            e.u \in DOMAIN last.pre.nodes /\ e.v \in DOMAIN last.pre.nodes

\* C9 as stated: an edge insertion that names a node never added raises the
\* unknown-node error (KeyError of that name) and does not create the node;
\* hence both endpoints of every edge are nodes added before the edge.
C9_UnknownNodeRejected ==
    /\ (last.op \in EdgeOps /\ UnknownNodes # {}) =>
        /\ last.exc \in {KeyError(n) : n \in UnknownNodes}
        /\ DOMAIN G.nodes = DOMAIN last.pre.nodes
    /\ EndpointsAreNodes
    /\ EndpointsAddedBefore

\* no check that the method makes before it looks a never-added node up
\* fails: add_edge's boundary guard passes and, for an unknown target, its
\* source has an fnid; the circuit port of a boundary insertion is declared
NothingRaisesBeforeNodeLookup ==
    /\ GuardPasses
    /\ last.op = "add_edge" =>
           \/ last.args.src \in UnknownNodes
           \/ "fnid" \in DOMAIN last.pre.nodes[last.args.src]
    /\ last.op = "add_init_edge" => last.args.src_port \in DOMAIN sig.in_types
    /\ last.op = "add_final_edge" => last.args.tgt_port \in DOMAIN sig.out_types

\* C9 amended: an edge insertion that names a node never added always raises,
\* leaves the graph as it was and so does not create the node; the error is
\* the KeyError of a never-added name the call gives whenever no earlier check
\* of the same call raises first; both endpoints of every edge are nodes of
\* the graph, added before the edge was inserted.
C9_UnknownNodeFails ==
    /\ (last.op \in EdgeOps /\ UnknownNodes # {}) =>
        /\ last.exc # NoExc
        /\ G = last.pre
        /\ NothingRaisesBeforeNodeLookup =>
               last.exc \in {KeyError(n) : n \in UnknownNodes}
    /\ EndpointsAreNodes
    /\ EndpointsAddedBefore

\* add_edge named a target never added, from a source that resolves, and got
\* the KeyError of the target's name
C9_Witness ==
    /\ last.op = "add_edge"
    /\ NodeHasSig(last.pre, last.args.src)
    /\ last.args.tgt \in UnknownNodes
    /\ last.exc = KeyError(last.args.tgt)
    /\ G.edges # {}

(* -------------------------------- C10 ----------------------------------- *)

\* the ports of the last call that are absent from the map they are looked
\* up in (a node's map exists when the node has a signature)
SrcPortAbsent ==
    /\ last.op = "add_init_edge" \/ NodeHasSig(last.pre, last.args.src)
    /\ last.args.src_port \notin DOMAIN SrcMap
TgtPortAbsent ==
    /\ last.op = "add_final_edge" \/ NodeHasSig(last.pre, last.args.tgt)
    /\ last.args.tgt_port \notin DOMAIN TgtMap
AbsentPorts ==
    (IF SrcPortAbsent THEN {last.args.src_port} ELSE {})
    \cup (IF TgtPortAbsent THEN {last.args.tgt_port} ELSE {})

C11_TestSucceeds ==
    sig = BellSig =>
        /\ last.exc = NoExc
        /\ last.op = "save_image" =>
            /\ n_add_node + n_add_edge = 7
            /\ DOMAIN G.nodes = {"init", "fin", "H", "CX"}
            /\ Cardinality(G.edges) = 5
            /\ \A e \in G.edges : e.attr.datatype = "Qubit"

\* test() ran to its end on the registry as the module defines it
C11_Witness ==
    /\ sig = BellSig
    /\ fn_types = FnTypesTable
    /\ last.op = "save_image"
    /\ Cardinality(G.edges) = 5

(* -------------------------------- C12 ----------------------------------- *)

\* C12: whatever names (init and fin included) the calls are given, no edge
\* of the graph has init as its target and no edge has fin as its source.
C12_BoundaryDirection ==
    \A e \in G.edges : e.v # "init" /\ e.u # "fin"

(* -------------------------------- C13 ----------------------------------- *)

\* C13: the graph always holds the start node init and the end node fin, made
\* by the constructor; no later call re-creates them or turns them into
\* operation nodes: they never acquire an operation identifier.
C13_BoundaryPermanent ==
    /\ {"init", "fin"} \subseteq DOMAIN G.nodes
    /\ "fnid" \notin DOMAIN G.nodes["init"]
    /\ "fnid" \notin DOMAIN G.nodes["fin"]
    /\ (last.op = "add_node" /\ last.args.name \in {"init", "fin"}) =>
           G.nodes[last.args.name] = last.pre.nodes[last.args.name]

(* -------------------------------- C14 ----------------------------------- *)

\* C14: save_image returns and leaves the nodes and the edges as they were, so
\* it can be called again, and every insertion made after it is accepted or
\* rejected, with the same resulting graph, as it would have been without it.
C14_ExportReadsOnly ==
    last.op = "save_image" =>
        /\ last.exc = NoExc
        /\ G = last.pre
        /\ save_image(G).exc = NoExc
        /\ \A c \in NodeInsertions \cup EdgeInsertions :
               call(G, sig, c) = call(last.pre, sig, c)

\* save_image was called on a graph that holds operation nodes and two edges
C14_Witness ==
    /\ last.op = "save_image"
    /\ BoundaryIntact
    /\ Cardinality(G.edges) = 2
    /\ OperationNodes # {}

(* -------------------------------- C15 ----------------------------------- *)

\* the edges of g from u to v
EdgesBetween(g, u, v) == {e \in g.edges : e.u = u /\ e.v = v}

\* C15: an insertion between a pair of nodes that is already connected, with
\* a (source port, target port) pair none of their edges uses and with equal
\* resolved types, returns and leaves both edges in the graph; and in every
\* reachable state (already in those where init and fin are as constructed)
\* no two edges between the same ordered pair of nodes have the same source
\* port and the same target port.
C15_DistinctPorts ==
    /\ ( /\ Resolved
         /\ SrcMap[last.args.src_port] = TgtMap[last.args.tgt_port]
         /\ EdgesBetween(last.pre, EdgeU, EdgeV) # {}
         /\ \A e \in EdgesBetween(last.pre, EdgeU, EdgeV) :
               ~(e.attr.src_port = last.args.src_port
                 /\ e.attr.tgt_port = last.args.tgt_port) ) =>
           /\ last.exc = NoExc
           /\ last.pre.edges \subseteq G.edges
           /\ Cardinality(EdgesBetween(G, EdgeU, EdgeV))
                = Cardinality(EdgesBetween(last.pre, EdgeU, EdgeV)) + 1
    /\ BoundaryIntact => \A e1 \in G.edges, e2 \in G.edges :
           ( /\ e1.u = e2.u /\ e1.v = e2.v
             /\ e1.attr.src_port = e2.attr.src_port
             /\ e1.attr.tgt_port = e2.attr.tgt_port ) => e1 = e2

(* -------------------------------- C16 ----------------------------------- *)

\* the edge multiset of g: how many edges join each (source, target) pair
\* with each (source port, target port, datatype), whatever their keys
EdgeBag(g) ==
    [x \in {[u |-> e.u, v |-> e.v, attr |-> e.attr] : e \in g.edges} |->
        Cardinality({e \in g.edges : e.u = x.u /\ e.v = x.v /\ e.attr = x.attr})]

\* g without its edges
NoEdges(g) == [g EXCEPT !.edges = {}]

\* two edge insertions were made in a row
PairMade == "first" \in DOMAIN last

\* C16: whether an edge insertion returns or raises, and what it raises, is
\* the same on a graph and on that graph without its edges; and of two edge
\* insertions made with no add_node in between, each has the outcome it has
\* when the two are made in the other order, and both orders leave the same
\* nodes and the same edge multiset.
C16_EdgeIndependence ==
    PairMade =>
        LET c1  == [op |-> last.first.op, args |-> last.first.args]
            c2  == [op |-> last.op, args |-> last.args]
            g0  == last.first.pre
            r2  == call(g0, sig, c2)
            r21 == call(r2.G, sig, c1)
        IN  /\ call(NoEdges(last.pre), sig, c2).exc = last.exc
            /\ r2.exc = last.exc
            /\ r21.exc = last.first.exc
            /\ r21.G.nodes = G.nodes
            /\ EdgeBag(r21.G) = EdgeBag(G)

\* two insertions returned that put two different edges between the same
\* pair of nodes, one of them an operation node
C16_Witness ==
    /\ PairMade
    /\ BoundaryIntact
    /\ last.exc = NoExc /\ last.first.exc = NoExc
    /\ \E e1 \in G.edges, e2 \in G.edges :
          e1.u = e2.u /\ e1.v = e2.v /\ e1.attr # e2.attr

====
